---- MODULE Spec2Model ----
(***************************************************************************)
(* Model of the device session core of homebridge-iport-sm-buttons         *)
(* (src/index.js, class IPortSMButtonsPlatform): the TCP session with its  *)
(* reconnect timers and keepalive, the receive path (JSON / legacy LED     *)
(* replies), the event queue, the per-button state machine and the         *)
(* dispatcher.  Every handler of the class is one action; the callbacks    *)
(* run on the single JavaScript thread, so each is atomic.                 *)
(***************************************************************************)
EXTENDS Integers, Sequences, FiniteSets, TLC

(***************************************************************************)
(* Bounds of the model.                                                    *)
(***************************************************************************)
MaxSockets == 3      \* transports created by connect() in one behaviour
MaxEvents == 3       \* button events decoded from the transport
MaxTime == 2         \* readings of Date.now()
MaxCycleEvents == 12 \* button events decoded where the color cycle is followed
MaxFrameEvents == 2  \* button events decoded where the LED state is framed
MaxTimedEvents == 4  \* button events decoded where presses are timed
MaxClock == 10       \* readings of Date.now() where presses are timed
MaxPulseEvents == 4  \* button events decoded where a trigger is pulsed again

(***************************************************************************)
(* Program constants.                                                      *)
(***************************************************************************)
NumButtons == 10
PadWidth == 9
FieldWidth == 3

\* The value standing for JavaScript's NaN: no parseInt of at most three
\* characters and no button index equals it.
NaN == -1000

\* The windows of the timer-based button handler, in tenths of a second
\* (the unit of Date.now() where presses are timed).
DoublePressWindow == 5
LongPressDelay == 8

Buttons == 0 .. (NumButtons - 1)

(***************************************************************************)
(* Strings are sequences of one-character strings.                         *)
(***************************************************************************)
Digits == <<"0", "1", "2", "3", "4", "5", "6", "7", "8", "9">>

IsDigit(c) == \E i \in 1 .. 10 : Digits[i] = c

DigitVal(c) == (CHOOSE i \in 1 .. 10 : Digits[i] = c) - 1

WhiteSpace == {" ", "\r", "\n"}

RECURSIVE TrimStart(_)
TrimStart(cs) ==
  IF cs # <<>> /\ Head(cs) \in WhiteSpace THEN TrimStart(Tail(cs)) ELSE cs

RECURSIVE TrimEnd(_)
TrimEnd(cs) ==
  IF cs # <<>> /\ cs[Len(cs)] \in WhiteSpace
  THEN TrimEnd(SubSeq(cs, 1, Len(cs) - 1))
  ELSE cs

\* String.prototype.trim
Trim(cs) == TrimEnd(TrimStart(cs))

\* String.prototype.substr(start, length), start counted from 0
Substr(cs, start, n) ==
  SubSeq(cs, start + 1, IF start + n < Len(cs) THEN start + n ELSE Len(cs))

RECURSIVE Zeros(_)
Zeros(n) == IF n <= 0 THEN <<>> ELSE <<"0">> \o Zeros(n - 1)

\* String.prototype.padStart(width, '0')
PadStart(cs, width) == Zeros(width - Len(cs)) \o cs

RECURSIVE DigitPrefix(_)
DigitPrefix(cs) ==
  IF cs = <<>> \/ ~IsDigit(Head(cs))
  THEN <<>>
  ELSE <<Head(cs)>> \o DigitPrefix(Tail(cs))

RECURSIVE DecVal(_)
DecVal(ds) ==
  IF ds = <<>>
  THEN 0
  ELSE DecVal(SubSeq(ds, 1, Len(ds) - 1)) * 10 + DigitVal(ds[Len(ds)])

\* parseInt(string, 10): leading white space, an optional sign, then the
\* longest run of decimal digits; NaN when there is no digit.
ParseInt10(cs) ==
  LET t == TrimStart(cs)
      signed == t # <<>> /\ Head(t) \in {"-", "+"}
      body == IF signed THEN Tail(t) ELSE t
      ds == DigitPrefix(body)
  IN  IF ds = <<>> THEN NaN
      ELSE IF signed /\ Head(t) = "-" THEN 0 - DecVal(ds)
      ELSE DecVal(ds)

\* Position of the first occurrence of pat in cs, 0 when there is none.
IndexOf(cs, pat) ==
  LET hits == {i \in 1 .. (Len(cs) - Len(pat) + 1) :
                 SubSeq(cs, i, i + Len(pat) - 1) = pat}
  IN  IF hits = {} THEN 0 ELSE CHOOSE i \in hits : \A j \in hits : i <= j

LedEq == <<"l", "e", "d", "=">>

\* str.includes('led=')
IncludesLedEq(cs) == IndexOf(cs, LedEq) # 0

\* str.split('led=')[1]: the text between the first and the second 'led='
AfterLedEq(cs) ==
  LET rest == SubSeq(cs, IndexOf(cs, LedEq) + 4, Len(cs))
      nxt == IndexOf(rest, LedEq)
  IN  IF nxt = 0 THEN rest ELSE SubSeq(rest, 1, nxt - 1)

\* /^\d{9}$/
IsNineDigits(cs) == Len(cs) = PadWidth /\ \A i \in 1 .. Len(cs) : IsDigit(cs[i])

(***************************************************************************)
(* Color tables (constructor).                                             *)
(***************************************************************************)
RGB(r, g, b) == [r |-> r, g |-> g, b |-> b]

modeColors ==
  [yellow |-> RGB(255, 255, 0), red |-> RGB(255, 0, 0), blue |-> RGB(0, 0, 255),
   green |-> RGB(0, 255, 0), purple |-> RGB(255, 0, 255),
   white |-> RGB(255, 255, 255)]

colorCycle == <<"red", "green", "blue", "yellow", "purple", "white">>

(***************************************************************************)
(* Configuration (this.config.buttonMappings).  Button 1 has no mapping;   *)
(* button 2 has an "any" mapping listed before two "red" ones; button 3    *)
(* has only an "any" mapping, button 4 only a "blue" one; the targets of   *)
(* buttons 5 to 7 are an accessory whose getService throws, an accessory   *)
(* the host does not know and one with no Switch or Lightbulb service;     *)
(* button 8 names an action that is none of toggle, on, off; button 9 has  *)
(* an LED action; and there is a mapping for the reserved button 10.       *)
(***************************************************************************)
Mapping(n, mode, type, target, act, url) ==
  [buttonNumber |-> n, modeColor |-> mode, actionType |-> type,
   targetName |-> target, action |-> act, url |-> url, value |-> <<>>]

\* A mapping whose action sets the panel's LED to the color named by value.
LedMapping(n, mode, value) ==
  [buttonNumber |-> n, modeColor |-> mode, actionType |-> "led",
   targetName |-> "", action |-> "color", url |-> "", value |-> value]

HexRed == <<"#", "F", "F", "0", "0", "0", "0">>

buttonMappings ==
  <<Mapping(2, "any", "homekit", "Lamp", "toggle", ""),
    Mapping(2, "red", "url", "", "", "http://hub/red"),
    Mapping(2, "red", "homekit", "Fan", "on", ""),
    Mapping(3, "any", "url", "", "", "http://hub/three"),
    Mapping(4, "blue", "homekit", "Lamp", "off", ""),
    Mapping(10, "any", "homekit", "Lamp", "on", ""),
    Mapping(5, "any", "homekit", "Relay", "on", ""),
    Mapping(6, "any", "homekit", "Ghost", "on", ""),
    Mapping(7, "any", "homekit", "Sensor", "on", ""),
    Mapping(8, "any", "homekit", "Lamp", "dim", ""),
    LedMapping(9, "any", HexRed)>>

\* getMappingKey(mapping), which determines the UUID of the mapping's
\* child accessory.
getMappingKey(m) == <<m.buttonNumber, m.modeColor, m.actionType, m.targetName>>

\* Display names of the accessories the host knows (findAccessoryByName).
HostAccessories == {"Lamp", "Sensor", "Relay"}

\* Those of them with neither a Switch nor a Lightbulb service.
ServicelessAccessories == {"Sensor"}

\* Those of them that are no platform accessory (the host's internal map is
\* read as it is found): calling getService on them throws.
FaultyAccessories == {"Relay"}

(***************************************************************************)
(* State.                                                                  *)
(***************************************************************************)
VARIABLES
  sockets,            \* every net.Socket created by connect(), in creation order
  socket,             \* this.socket: index into sockets, 0 for null
  connected,          \* this.connected
  isShuttingDown,     \* this.isShuttingDown
  keepAliveInterval,  \* this.keepAliveInterval: "null", "active" or "cleared"
  reconnectTimers,    \* pending setTimeout(() => this.connect()) timers
  accessory,          \* this.accessory is set
  lightService,       \* this.lightService is set
  buttonServices,     \* indices i with this.buttonServices[i] defined
  launched,           \* the host has emitted didFinishLaunching
  eventQueue,         \* this.eventQueue
  buttonStates,       \* this.buttonStates
  ledColor,           \* this.ledColor
  currentColorIndex,  \* this.currentColorIndex, counted from 0
  lastRawData,        \* this.lastRawData, <<>> for null
  mappingSwitches,    \* keys of this.mappingSwitches (mapping keys with a switch)
  resetTimers,        \* pending reset timers of triggerVirtualSwitch, by mapping key
  switchOn,           \* mapping keys whose switch has On = true
  requests,           \* http(s) requests of executeUrlAction in flight
  pressTimers,        \* button indices whose bs.timer (long press) is pending
  now,                \* Date.now()
  written,            \* commands written to the transport by the last step
  notified,           \* outward notifications and dispatches of the last step
  handled,            \* events that reached the button state machine in the last step
  arrivals,           \* button events decoded so far (gives each its arrival number)
  queuedSeqs,         \* arrival numbers of the events pushed on eventQueue
  handledSeqs,        \* arrival numbers of the events that reached the state machine
  presses,            \* per button index, press events that reached the state machine
  completions         \* per button index, single-press completions so far

connVars == <<sockets, socket, connected, isShuttingDown, keepAliveInterval,
              reconnectTimers>>
hostVars == <<accessory, lightService, buttonServices, launched>>
buttonVars == <<eventQueue, buttonStates, ledColor, currentColorIndex,
               lastRawData, mappingSwitches, resetTimers, switchOn, requests,
               pressTimers>>
logVars == <<arrivals, queuedSeqs, handledSeqs, presses, completions>>
outVars == <<written, notified, handled>>
vars == <<connVars, hostVars, buttonVars, now, outVars, logVars>>

\* A transport: its status, and what its own handlers have done so far:
\* reconnect timers scheduled, reachability-false notifications sent, and
\* whether its 'error' event came while the session was Connected.
NewSocket ==
  [status |-> "connecting", scheduled |-> 0, reachFalse |-> 0,
   errorWhileConnected |-> FALSE]

Live(s) == sockets[s].status \in {"connecting", "open"}

SocketIds == 1 .. Len(sockets)

\* The constructor: fields set, then this.connect().
Init ==
  /\ sockets = <<NewSocket>>
  /\ socket = 1
  /\ connected = FALSE
  /\ isShuttingDown = FALSE
  /\ keepAliveInterval = "null"
  /\ reconnectTimers = 0
  /\ accessory = FALSE
  /\ lightService = FALSE
  /\ buttonServices = {}
  /\ launched = FALSE
  /\ eventQueue = <<>>
  /\ buttonStates = [i \in Buttons |-> [state |-> 0, lastPress |-> 0]]
  /\ ledColor = RGB(255, 255, 255)
  /\ currentColorIndex = 0
  /\ lastRawData = <<>>
  /\ mappingSwitches = {}
  /\ resetTimers = <<>>
  /\ switchOn = {}
  /\ requests = 0
  /\ pressTimers = {}
  /\ now = 1
  /\ written = <<>>
  /\ notified = <<>>
  /\ handled = <<>>
  /\ arrivals = 0
  /\ queuedSeqs = <<>>
  /\ handledSeqs = <<>>
  /\ presses = [i \in Buttons |-> 0]
  /\ completions = [i \in Buttons |-> 0]

(***************************************************************************)
(* Helpers of the connection handlers.                                     *)
(***************************************************************************)
\* socket.destroy() on transport x: a live transport is torn down and its
\* 'close' event becomes pending; on null or a destroyed one it does nothing.
Destroy(socks, x) ==
  IF x # 0 /\ socks[x].status \in {"connecting", "open"}
  THEN [socks EXCEPT ![x].status = "closing"]
  ELSE socks

\* if (this.accessory?.updateReachability) this.accessory.updateReachability(v)
Reachability(v) == IF accessory THEN <<[kind |-> "reach", value |-> v]>> ELSE <<>>

\* queryLED() without its guard.
QueryLEDUnguarded(conn) == <<[op |-> "query", to |-> socket]>>

\* queryLED(), with the value this.connected has when it is called
QueryLED(conn) ==
  IF ~conn \/ isShuttingDown THEN <<>> ELSE <<[op |-> "query", to |-> socket]>>

\* if (this.keepAliveInterval) clearInterval(this.keepAliveInterval)
ClearKeepAlive == IF keepAliveInterval = "null" THEN "null" ELSE "cleared"

\* A handler that schedules no reconnect.
ScheduleReconnectNever == IF isShuttingDown THEN 0 ELSE 0

\* if (!this.isShuttingDown) setTimeout(() => this.connect(), this.reconnectDelay)
ScheduleReconnect == IF isShuttingDown THEN 0 ELSE 1

(***************************************************************************)
(* connect() and the socket handlers it installs.                          *)
(***************************************************************************)
\* A reconnect timer fires and runs connect(): a new transport replaces
\* this.socket.
ReconnectTimer ==
  /\ reconnectTimers > 0
  /\ Len(sockets) < MaxSockets
  /\ reconnectTimers' = reconnectTimers - 1
  /\ sockets' = Append(sockets, NewSocket)
  /\ socket' = Len(sockets) + 1
  /\ written' = <<>>
  /\ handled' = <<>>
  /\ notified' = <<>>
  /\ UNCHANGED <<connected, isShuttingDown, keepAliveInterval, hostVars,
                 buttonVars, now, logVars>>

\* The connect callback of src/unnamed/part_001, which starts the keepalive
\* only when no interval handle is stored: if (!this.keepAliveInterval).
\* clearInterval leaves the handle in the field.
ConnectCallbackKeepsHandle(s) ==
  /\ sockets[s].status = "connecting"
  /\ sockets' = [sockets EXCEPT ![s].status = "open"]
  /\ connected' = TRUE
  /\ written' = QueryLED(TRUE)
  /\ handled' = <<>>
  /\ notified' = Reachability(TRUE)
  /\ keepAliveInterval' =
       IF keepAliveInterval = "null" THEN "active" ELSE keepAliveInterval
  /\ UNCHANGED <<socket, isShuttingDown, reconnectTimers, hostVars, buttonVars,
                 now, logVars>>

\* The connect callback of transport s.
ConnectCallback(s) ==
  /\ sockets[s].status = "connecting"
  /\ sockets' = [sockets EXCEPT ![s].status = "open"]
  /\ connected' = TRUE
  /\ written' = QueryLED(TRUE)
  /\ handled' = <<>>
  /\ notified' = Reachability(TRUE)
  /\ keepAliveInterval' = "active"
  /\ UNCHANGED <<socket, isShuttingDown, reconnectTimers, hostVars, buttonVars,
                 now, logVars>>

\* The keepalive interval fires.
KeepAliveTick ==
  /\ keepAliveInterval = "active"
  /\ written' = QueryLED(connected)
  /\ handled' = <<>>
  /\ notified' = <<>>
  /\ UNCHANGED <<connVars, hostVars, buttonVars, now, logVars>>

\* Transport s fails: Node tears s down and emits 'error' on it (its 'close'
\* follows); the handler destroys this.socket, whichever transport that is.
SocketError(s) ==
  /\ Live(s)
  /\ sockets' = Destroy([sockets EXCEPT
                   ![s].status = "closing",
                   ![s].scheduled = @ + ScheduleReconnect,
                   ![s].reachFalse = @ + Len(Reachability(FALSE)),
                   ![s].errorWhileConnected =
                       connected /\ ~isShuttingDown /\ socket = s], socket)
  /\ connected' = FALSE
  /\ notified' = Reachability(FALSE)
  /\ reconnectTimers' = reconnectTimers + ScheduleReconnect
  /\ written' = <<>>
  /\ handled' = <<>>
  /\ UNCHANGED <<socket, isShuttingDown, keepAliveInterval, hostVars,
                 buttonVars, now, logVars>>

\* The 'close' event of a destroyed transport s.
SocketClose(s) ==
  /\ sockets[s].status = "closing"
  /\ sockets' = [sockets EXCEPT
                   ![s].status = "closed",
                   ![s].scheduled = @ + ScheduleReconnect,
                   ![s].reachFalse = @ + Len(Reachability(FALSE))]
  /\ connected' = FALSE
  /\ notified' = Reachability(FALSE)
  /\ keepAliveInterval' = ClearKeepAlive
  /\ reconnectTimers' = reconnectTimers + ScheduleReconnect
  /\ written' = <<>>
  /\ handled' = <<>>
  /\ UNCHANGED <<socket, isShuttingDown, hostVars, buttonVars, now, logVars>>

\* The connect/idle timeout of transport s: the handler destroys this.socket.
SocketTimeout(s) ==
  /\ Live(s)
  /\ sockets' = Destroy(sockets, socket)
  /\ written' = <<>>
  /\ handled' = <<>>
  /\ notified' = <<>>
  /\ UNCHANGED <<socket, connected, isShuttingDown, keepAliveInterval,
                 reconnectTimers, hostVars, buttonVars, now, logVars>>

\* The panel ends the connection of transport s: Node destroys s without an
\* error, and only its 'close' event follows.
TransportEnd(s) ==
  /\ sockets[s].status = "open"
  /\ sockets' = [sockets EXCEPT ![s].status = "closing"]
  /\ written' = <<>>
  /\ handled' = <<>>
  /\ notified' = <<>>
  /\ UNCHANGED <<socket, connected, isShuttingDown, keepAliveInterval,
                 reconnectTimers, hostVars, buttonVars, now, logVars>>

\* The host's 'shutdown' event.
Shutdown ==
  /\ ~isShuttingDown
  /\ isShuttingDown' = TRUE
  /\ keepAliveInterval' = ClearKeepAlive
  /\ sockets' = Destroy(sockets, socket)
  /\ written' = <<>>
  /\ handled' = <<>>
  /\ notified' = <<>>
  /\ UNCHANGED <<socket, connected, reconnectTimers, hostVars, buttonVars,
                 now, logVars>>

(***************************************************************************)
(* The synchronous call chains below (receive path, queue flush, button    *)
(* state machine, dispatcher) are operators on a record p of the fields    *)
(* they read and write; an action builds p from the variables, applies the *)
(* chain and stores the result.  p.thrown says that an exception is        *)
(* propagating: the callers skip the rest of their bodies until a catch.   *)
(***************************************************************************)
Self ==
  [connected |-> connected, isShuttingDown |-> isShuttingDown,
   socket |-> socket, lightService |-> lightService,
   buttonServices |-> buttonServices, eventQueue |-> eventQueue,
   buttonStates |-> buttonStates, ledColor |-> ledColor,
   currentColorIndex |-> currentColorIndex, lastRawData |-> lastRawData,
   mappingSwitches |-> mappingSwitches, resetTimers |-> resetTimers,
   switchOn |-> switchOn, requests |-> requests, pressTimers |-> pressTimers,
   now |-> now, thrown |-> FALSE,
   written |-> <<>>, notified |-> <<>>, handled |-> <<>>,
   arrivals |-> arrivals, queuedSeqs |-> queuedSeqs,
   handledSeqs |-> handledSeqs, presses |-> presses,
   completions |-> completions]

Store(p) ==
  /\ lightService' = p.lightService
  /\ buttonServices' = p.buttonServices
  /\ eventQueue' = p.eventQueue
  /\ buttonStates' = p.buttonStates
  /\ ledColor' = p.ledColor
  /\ currentColorIndex' = p.currentColorIndex
  /\ lastRawData' = p.lastRawData
  /\ mappingSwitches' = p.mappingSwitches
  /\ resetTimers' = p.resetTimers
  /\ switchOn' = p.switchOn
  /\ requests' = p.requests
  /\ pressTimers' = p.pressTimers
  /\ written' = p.written
  /\ notified' = p.notified
  /\ handled' = p.handled
  /\ arrivals' = p.arrivals
  /\ queuedSeqs' = p.queuedSeqs
  /\ handledSeqs' = p.handledSeqs
  /\ presses' = p.presses
  /\ completions' = p.completions

(***************************************************************************)
(* LED commands and reports.                                               *)
(***************************************************************************)
\* hsv.v > 0 of rgbToHsv: v is the largest channel; a NaN channel makes v
\* NaN, and NaN > 0 is false.
LightOn(c) ==
  /\ NaN \notin {c.r, c.g, c.b}
  /\ \E x \in {c.r, c.g, c.b} : x > 0

\* updateLightCharacteristics reporting the light as on whatever the color.
updateLightCharacteristicsAlwaysOn(p) ==
  IF ~p.lightService \/ ~p.connected \/ p.isShuttingDown
  THEN p
  ELSE [p EXCEPT !.notified =
          Append(@, [kind |-> "light", color |-> p.ledColor, on |-> TRUE])]

updateLightCharacteristics(p) ==
  IF ~p.lightService \/ ~p.connected \/ p.isShuttingDown
  THEN p
  ELSE [p EXCEPT !.notified =
          Append(@, [kind |-> "light", color |-> p.ledColor,
                     on |-> LightOn(p.ledColor)])]

parseAndSetLedFromString(p, ledValue) ==
  LET s == Trim(ledValue)
      padded == Substr(PadStart(s, PadWidth), 0, PadWidth)
      newR == ParseInt10(Substr(padded, 0, FieldWidth))
      newG == ParseInt10(Substr(padded, FieldWidth, FieldWidth))
      newB == ParseInt10(Substr(padded, 2 * FieldWidth, FieldWidth))
  IN  updateLightCharacteristics([p EXCEPT !.ledColor = RGB(newR, newG, newB)])

\* setLED recording the color even when it writes nothing.
setLEDOptimistic(p, r, g, b) ==
  IF ~p.connected \/ p.isShuttingDown
  THEN [p EXCEPT !.ledColor = RGB(r, g, b)]
  ELSE [p EXCEPT
          !.written = Append(@, [op |-> "set", to |-> p.socket,
                                 r |-> r, g |-> g, b |-> b]),
          !.ledColor = RGB(r, g, b)]

\* setLED without its guard.
setLEDUnguarded(p, r, g, b) ==
  [p EXCEPT
     !.written = Append(@, [op |-> "set", to |-> p.socket,
                            r |-> r, g |-> g, b |-> b]),
     !.ledColor = RGB(r, g, b)]

setLED(p, r, g, b) ==
  IF ~p.connected \/ p.isShuttingDown
  THEN p
  ELSE [p EXCEPT
          !.written = Append(@, [op |-> "set", to |-> p.socket,
                                 r |-> r, g |-> g, b |-> b]),
          !.ledColor = RGB(r, g, b)]

cycleLEDColor(p) ==
  LET next == (p.currentColorIndex + 1) % Len(colorCycle)
      color == modeColors[colorCycle[next + 1]]
  IN  setLED([p EXCEPT !.currentColorIndex = next], color.r, color.g, color.b)

(***************************************************************************)
(* Dispatcher.  Every invocation, mapping lookup, selection and executed   *)
(* action is noted in p.notified.                                          *)
(***************************************************************************)
Max3(a, b, c) ==
  LET ab == IF a >= b THEN a ELSE b IN IF ab >= c THEN ab ELSE c

\* The channel compared as it is, without the normalisation.
ScaleNone(x, max) == IF max > 0 THEN x ELSE x

\* Math.round((x / max) * 255) for max # 0
Scale(x, max) ==
  IF max > 0
  THEN (2 * 255 * x + max) \div (2 * max)
  ELSE (0 - 2 * 255 * x - max) \div (0 - 2 * max)

\* getCurrentMode(): 'off', the name of the mode color the brightness-
\* normalised color equals, or 'unknown'.  A NaN channel, or a zero maximum
\* with a negative channel, makes every comparison fail.
getCurrentMode(c) ==
  LET max == Max3(c.r, c.g, c.b)
  IN  IF c = RGB(0, 0, 0) THEN "off"
      ELSE IF NaN \in {c.r, c.g, c.b} \/ max = 0 THEN "unknown"
      ELSE LET n == RGB(Scale(c.r, max), Scale(c.g, max), Scale(c.b, max))
               hits == {m \in DOMAIN modeColors : modeColors[m] = n}
           IN  IF hits = {} THEN "unknown" ELSE CHOOSE m \in hits : TRUE

\* triggerVirtualSwitch scheduling no reset.
triggerVirtualSwitchNoReset(p, key) ==
  [p EXCEPT !.notified = Append(@, [kind |-> "virtual", key |-> key]),
            !.switchOn = @ \cup {key}]

\* triggerVirtualSwitch(service): On = true now, a timer to set it back.
triggerVirtualSwitch(p, key) ==
  [p EXCEPT !.notified = Append(@, [kind |-> "virtual", key |-> key]),
            !.switchOn = @ \cup {key},
            !.resetTimers = Append(@, key)]

\* executeUrlAction issuing the request a second time.
executeUrlActionTwice(p, action) ==
  IF action.url = "" THEN p
  ELSE [p EXCEPT !.notified = Append(@, [kind |-> "url", url |-> action.url])
                                \o <<[kind |-> "url", url |-> action.url]>>,
                 !.requests = @ + 2]

\* executeUrlAction(action): one request is issued (the configured URLs are
\* well formed, so new URL does not throw).
executeUrlAction(p, action) ==
  IF action.url = "" THEN p
  ELSE [p EXCEPT !.notified = Append(@, [kind |-> "url", url |-> action.url]),
                 !.requests = @ + 1]

\* executeHomeKitAction setting the On characteristic without its checks.
executeHomeKitActionNoChecks(p, action) ==
  [p EXCEPT !.notified =
     Append(@, [kind |-> "setValue", target |-> action.targetName,
                action |-> action.action])]

\* executeHomeKitAction(action): the On characteristic of the target is set
\* when the target is found, has a service and action.action is toggle, on
\* or off.  The calls of getService are in no try block.
executeHomeKitAction(p, action) ==
  IF action.targetName = "" \/ action.targetName \notin HostAccessories
  THEN p
  ELSE IF action.targetName \in FaultyAccessories
  THEN [p EXCEPT !.thrown = TRUE]
  ELSE IF action.targetName \in ServicelessAccessories
          \/ action.action \notin {"toggle", "on", "off"}
  THEN p
  ELSE [p EXCEPT !.notified =
          Append(@, [kind |-> "setValue", target |-> action.targetName,
                     action |-> action.action])]

\* The selected mapping run without the return after triggerVirtualSwitch.
executeMappingBoth(p, actionToExecute) ==
  LET q == [p EXCEPT !.notified =
              Append(@, [kind |-> "select", mapping |-> actionToExecute])]
      key == getMappingKey(actionToExecute)
      t == IF key \in p.mappingSwitches THEN triggerVirtualSwitch(q, key) ELSE q
  IN  IF actionToExecute.actionType = "url"
      THEN executeUrlAction(t, actionToExecute)
      ELSE executeHomeKitAction(t, actionToExecute)

\* The part of executeButtonAction that runs the selected mapping.
executeMapping(p, actionToExecute) ==
  LET q == [p EXCEPT !.notified =
              Append(@, [kind |-> "select", mapping |-> actionToExecute])]
      key == getMappingKey(actionToExecute)
  IN  IF key \in p.mappingSwitches THEN triggerVirtualSwitch(q, key)
      ELSE IF actionToExecute.actionType = "url"
      THEN executeUrlAction(q, actionToExecute)
      ELSE executeHomeKitAction(q, actionToExecute)

\* executeButtonAction without the reservation of button 10.
executeButtonActionNoReserved(p, buttonNumber) ==
  LET q == [p EXCEPT !.notified =
              Append(@, [kind |-> "dispatch", button |-> buttonNumber])]
      l == [q EXCEPT !.notified =
              Append(@, [kind |-> "lookup", button |-> buttonNumber])]
      actions == SelectSeq(buttonMappings,
                           LAMBDA m : m.buttonNumber = buttonNumber)
      currentMode == getCurrentMode(p.ledColor)
      exact == SelectSeq(actions, LAMBDA a : a.modeColor = currentMode)
      any == SelectSeq(actions, LAMBDA a : a.modeColor = "any")
  IN  IF actions = <<>> THEN l
      ELSE IF exact # <<>> THEN executeMapping(l, Head(exact))
      ELSE IF any # <<>> THEN executeMapping(l, Head(any))
      ELSE l

\* executeButtonAction trying the "any" mappings before the exact ones.
executeButtonActionAnyFirst(p, buttonNumber) ==
  LET q == [p EXCEPT !.notified =
              Append(@, [kind |-> "dispatch", button |-> buttonNumber])]
      l == [q EXCEPT !.notified =
              Append(@, [kind |-> "lookup", button |-> buttonNumber])]
      actions == SelectSeq(buttonMappings,
                           LAMBDA m : m.buttonNumber = buttonNumber)
      currentMode == getCurrentMode(p.ledColor)
      exact == SelectSeq(actions, LAMBDA a : a.modeColor = currentMode)
      any == SelectSeq(actions, LAMBDA a : a.modeColor = "any")
  IN  IF buttonNumber = NumButtons THEN cycleLEDColor(q)
      ELSE IF actions = <<>> THEN l
      ELSE IF any # <<>> THEN executeMapping(l, Head(any))
      ELSE IF exact # <<>> THEN executeMapping(l, Head(exact))
      ELSE l

executeButtonAction(p, buttonNumber) ==
  LET q == [p EXCEPT !.notified =
              Append(@, [kind |-> "dispatch", button |-> buttonNumber])]
      l == [q EXCEPT !.notified =
              Append(@, [kind |-> "lookup", button |-> buttonNumber])]
      actions == SelectSeq(buttonMappings,
                           LAMBDA m : m.buttonNumber = buttonNumber)
      currentMode == getCurrentMode(p.ledColor)
      exact == SelectSeq(actions, LAMBDA a : a.modeColor = currentMode)
      any == SelectSeq(actions, LAMBDA a : a.modeColor = "any")
  IN  IF buttonNumber = NumButtons THEN cycleLEDColor(q)
      ELSE IF actions = <<>> THEN l
      ELSE IF exact # <<>> THEN executeMapping(l, Head(exact))
      ELSE IF any # <<>> THEN executeMapping(l, Head(any))
      ELSE l

(***************************************************************************)
(* Event queue and button state machine.                                   *)
(***************************************************************************)
\* handleButtonEvent with the release branch forgetting bs.state = 0.
handleButtonEventStaysPressed(p, ev) ==
  IF ~p.connected \/ p.isShuttingDown THEN p
  ELSE IF ev.buttonIndex \notin p.buttonServices THEN p
  ELSE
    LET i == ev.buttonIndex
        q == [p EXCEPT !.handled = Append(@, ev),
                       !.handledSeqs = Append(@, ev.seq)]
    IN  IF ev.state = 1
        THEN [q EXCEPT !.buttonStates[i] = [state |-> 1, lastPress |-> p.now],
                       !.presses[i] = @ + 1]
        ELSE IF ev.state = 0 /\ p.buttonStates[i].state = 1
        THEN executeButtonAction(
               [q EXCEPT !.notified = Append(@, [kind |-> "button", button |-> i]),
                         !.completions[i] = @ + 1],
               i + 1)
        ELSE q

\* handleButtonEvent with the release branch not testing bs.state === 1.
handleButtonEventAnyRelease(p, ev) ==
  IF ~p.connected \/ p.isShuttingDown THEN p
  ELSE IF ev.buttonIndex \notin p.buttonServices THEN p
  ELSE
    LET i == ev.buttonIndex
        q == [p EXCEPT !.handled = Append(@, ev),
                       !.handledSeqs = Append(@, ev.seq)]
    IN  IF ev.state = 1
        THEN [q EXCEPT !.buttonStates[i] = [state |-> 1, lastPress |-> p.now],
                       !.presses[i] = @ + 1]
        ELSE IF ev.state = 0
        THEN executeButtonAction(
               [q EXCEPT !.buttonStates[i].state = 0,
                         !.notified = Append(@, [kind |-> "button", button |-> i]),
                         !.completions[i] = @ + 1],
               i + 1)
        ELSE q

\* handleButtonEvent taking every state other than 1 for a release.
handleButtonEventElseRelease(p, ev) ==
  IF ~p.connected \/ p.isShuttingDown THEN p
  ELSE IF ev.buttonIndex \notin p.buttonServices THEN p
  ELSE
    LET i == ev.buttonIndex
        q == [p EXCEPT !.handled = Append(@, ev),
                       !.handledSeqs = Append(@, ev.seq)]
    IN  IF ev.state = 1
        THEN [q EXCEPT !.buttonStates[i] = [state |-> 1, lastPress |-> p.now],
                       !.presses[i] = @ + 1]
        ELSE IF p.buttonStates[i].state = 1
        THEN executeButtonAction(
               [q EXCEPT !.buttonStates[i].state = 0,
                         !.notified = Append(@, [kind |-> "button", button |-> i]),
                         !.completions[i] = @ + 1],
               i + 1)
        ELSE q

\* ev is [buttonIndex, state, seq]; seq is the event's arrival number.
handleButtonEvent(p, ev) ==
  IF ~p.connected \/ p.isShuttingDown THEN p
  ELSE IF ev.buttonIndex \notin p.buttonServices THEN p
  ELSE
    LET i == ev.buttonIndex
        q == [p EXCEPT !.handled = Append(@, ev),
                       !.handledSeqs = Append(@, ev.seq)]
    IN  IF ev.state = 1
        THEN [q EXCEPT !.buttonStates[i] = [state |-> 1, lastPress |-> p.now],
                       !.presses[i] = @ + 1]
        ELSE IF ev.state = 0 /\ p.buttonStates[i].state = 1
        THEN executeButtonAction(
               [q EXCEPT !.buttonStates[i].state = 0,
                         !.notified = Append(@, [kind |-> "button", button |-> i]),
                         !.completions[i] = @ + 1],
               i + 1)
        ELSE q

queueOrHandleEvent(p, ev) ==
  IF p.buttonServices = {}
  THEN [p EXCEPT !.eventQueue = Append(@, ev),
                 !.queuedSeqs = Append(@, ev.seq)]
  ELSE handleButtonEvent(p, ev)

RECURSIVE processQueuedEvents(_)
processQueuedEvents(p) ==
  IF Len(p.eventQueue) > 0 /\ ~p.thrown
  THEN processQueuedEvents(
         handleButtonEvent([p EXCEPT !.eventQueue = Tail(@)], Head(p.eventQueue)))
  ELSE p

(***************************************************************************)
(* The timer-based button handler of src/unnamed/part_000 (lines 672 on):  *)
(* a press is classified double, long or single.                           *)
(***************************************************************************)
\* triggerButtonEvent(buttonIndex, eventType): the ProgrammableSwitchEvent.
triggerButtonEvent(p, i, type) ==
  IF p.isShuttingDown THEN p
  ELSE [p EXCEPT !.notified =
                   Append(@, [kind |-> "press", button |-> i, type |-> type]),
                 !.completions[i] = @ + 1]

\* now - bs.lastPress < 500.  lastPress is 0 until the first press, and
\* Date.now() is never within the window of 0.
WithinDoubleWindow(p, i) ==
  /\ p.buttonStates[i].lastPress # 0
  /\ p.now - p.buttonStates[i].lastPress < DoublePressWindow

\* The timed handler never classifying a press as double.
handleButtonEventTimedNoDouble(p, ev) ==
  IF ~p.connected \/ p.isShuttingDown THEN p
  ELSE IF ev.buttonIndex \notin p.buttonServices THEN p
  ELSE
    LET i == ev.buttonIndex
        q == [p EXCEPT !.handled = Append(@, ev),
                       !.handledSeqs = Append(@, ev.seq)]
    IN  IF ev.state = 1
        THEN IF p.buttonStates[i].state = 0
             THEN [q EXCEPT !.buttonStates[i] =
                               [state |-> 1, lastPress |-> p.now],
                            !.presses[i] = @ + 1,
                            !.pressTimers = @ \cup {i}]
             ELSE q
        ELSE IF ev.state = 0
        THEN IF p.buttonStates[i].state = 1
             THEN LET r == [q EXCEPT !.buttonStates[i].state = 0]
                  IN  IF i \in p.pressTimers
                      THEN triggerButtonEvent(
                             [r EXCEPT !.pressTimers = @ \ {i}], i, "single")
                      ELSE r
             ELSE q
        ELSE q

\* The timed handler whose release leaves the long-press timer pending.
handleButtonEventTimedNoCancel(p, ev) ==
  IF ~p.connected \/ p.isShuttingDown THEN p
  ELSE IF ev.buttonIndex \notin p.buttonServices THEN p
  ELSE
    LET i == ev.buttonIndex
        q == [p EXCEPT !.handled = Append(@, ev),
                       !.handledSeqs = Append(@, ev.seq)]
    IN  IF ev.state = 1
        THEN IF p.buttonStates[i].state = 0
             THEN LET r == [q EXCEPT !.buttonStates[i] =
                                        [state |-> 1, lastPress |-> p.now],
                                     !.presses[i] = @ + 1]
                  IN  IF WithinDoubleWindow(p, i)
                      THEN triggerButtonEvent(r, i, "double")
                      ELSE [r EXCEPT !.pressTimers = @ \cup {i}]
             ELSE q
        ELSE IF ev.state = 0
        THEN IF p.buttonStates[i].state = 1
             THEN LET r == [q EXCEPT !.buttonStates[i].state = 0]
                  IN  IF i \in p.pressTimers
                      THEN triggerButtonEvent(r, i, "single")
                      ELSE r
             ELSE q
        ELSE q

\* handleButtonEvent(buttonIndex, state) of the timer-based handler.
handleButtonEventTimed(p, ev) ==
  IF ~p.connected \/ p.isShuttingDown THEN p
  ELSE IF ev.buttonIndex \notin p.buttonServices THEN p
  ELSE
    LET i == ev.buttonIndex
        q == [p EXCEPT !.handled = Append(@, ev),
                       !.handledSeqs = Append(@, ev.seq)]
    IN  IF ev.state = 1
        THEN IF p.buttonStates[i].state = 0
             THEN LET r == [q EXCEPT !.buttonStates[i] =
                                        [state |-> 1, lastPress |-> p.now],
                                     !.presses[i] = @ + 1]
                  IN  IF WithinDoubleWindow(p, i)
                      THEN triggerButtonEvent(r, i, "double")
                      ELSE [r EXCEPT !.pressTimers = @ \cup {i}]
             ELSE q
        ELSE IF ev.state = 0
        THEN IF p.buttonStates[i].state = 1
             THEN LET r == [q EXCEPT !.buttonStates[i].state = 0]
                  IN  IF i \in p.pressTimers
                      THEN triggerButtonEvent(
                             [r EXCEPT !.pressTimers = @ \ {i}], i, "single")
                      ELSE r
             ELSE q
        ELSE q

(***************************************************************************)
(* The 'data' handler.                                                     *)
(***************************************************************************)
\* (label || '').split(' ')[1]: the text between the first and the second
\* space; <<>> (parsed as NaN, like undefined) when the label has no space.
SecondWord(label) ==
  LET sp == IndexOf(label, <<" ">>)
      rest == SubSeq(label, sp + 1, Len(label))
      nxt == IndexOf(rest, <<" ">>)
  IN  IF sp = 0 THEN <<>>
      ELSE IF nxt = 0 THEN rest
      ELSE SubSeq(rest, 1, nxt - 1)

\* The body of json.events.forEach for one entry.
DecodeEvent(p, event) ==
  LET word == ParseInt10(SecondWord(event.label))
      keyNum == IF word = NaN THEN NaN ELSE word - 1
      state == ParseInt10(event.state)
  IN  IF keyNum # NaN /\ state # NaN
      THEN queueOrHandleEvent(
             [p EXCEPT !.arrivals = @ + 1],
             [buttonIndex |-> keyNum, state |-> state, seq |-> p.arrivals + 1])
      ELSE p

RECURSIVE ForEachEvent(_, _)
ForEachEvent(p, events) ==
  IF events = <<>> \/ p.thrown THEN p
  ELSE ForEachEvent(DecodeEvent(p, Head(events)), Tail(events))

\* The body of json.events.forEach of the timer-based 'data' handler: the
\* event is handled at once, whatever parseInt returned.
DecodeEventTimed(p, event) ==
  LET word == ParseInt10(SecondWord(event.label))
      keyNum == IF word = NaN THEN NaN ELSE word - 1
      state == ParseInt10(event.state)
  IN  handleButtonEventTimed(
        [p EXCEPT !.arrivals = @ + 1],
        [buttonIndex |-> keyNum, state |-> state, seq |-> p.arrivals + 1])

RECURSIVE ForEachEventTimed(_, _)
ForEachEventTimed(p, events) ==
  IF events = <<>> THEN p
  ELSE ForEachEventTimed(DecodeEventTimed(p, Head(events)), Tail(events))

\* The timer-based 'data' handler on a chunk that is a JSON object.
DataHandlerTimed(p, chunk) ==
  IF p.isShuttingDown THEN p
  ELSE ForEachEventTimed(p, chunk.events)

\* JSON.parse of a chunk that is not an object: over the characters used
\* here it succeeds exactly on a number literal (digits, no leading zero).
JsonParsesText(str) ==
  /\ str # <<>>
  /\ \A i \in 1 .. Len(str) : IsDigit(str[i])
  /\ (Len(str) = 1 \/ str[1] # "0")

\* A received chunk is a JSON object (its led field, <<>> when missing, and
\* its events; its text is not spelled out) or other text.
ObjectChunk(led, events) ==
  [kind |-> "object", text |-> <<"{", "}">>, led |-> led, events |-> events]

TextChunk(text) == [kind |-> "text", text |-> text, led |-> <<>>, events |-> <<>>]

LegacyParse(p, str) ==
  IF IncludesLedEq(str)
  THEN LET ledValue == Trim(AfterLedEq(str))
       IN  IF ledValue # <<>> THEN parseAndSetLedFromString(p, ledValue) ELSE p
  ELSE LET possibleRGB ==
             Trim(SelectSeq(str, LAMBDA c : c \notin {"\r", "\n"}))
       IN  IF IsNineDigits(possibleRGB)
           THEN parseAndSetLedFromString(p, possibleRGB)
           ELSE p

\* The 'data' handler without its guard on isShuttingDown.
DataHandlerUnguarded(p, chunk) ==
  LET str == Trim(chunk.text)
      q == [p EXCEPT !.lastRawData = str]
      tried == ForEachEvent(
                 IF chunk.led # <<>>
                 THEN parseAndSetLedFromString(q, chunk.led)
                 ELSE q,
                 chunk.events)
  IN  IF chunk.kind = "object"
      THEN IF tried.thrown
           THEN LegacyParse([tried EXCEPT !.thrown = FALSE], str)
           ELSE tried
      ELSE IF JsonParsesText(str) THEN q
      ELSE LegacyParse(q, str)

DataHandler(p, chunk) ==
  IF p.isShuttingDown THEN p
  ELSE
    LET str == Trim(chunk.text)
        q == [p EXCEPT !.lastRawData = str]
        tried == ForEachEvent(
                   IF chunk.led # <<>>
                   THEN parseAndSetLedFromString(q, chunk.led)
                   ELSE q,
                   chunk.events)
    IN  IF chunk.kind = "object"
        THEN IF tried.thrown
             THEN LegacyParse([tried EXCEPT !.thrown = FALSE], str)
             ELSE tried
        ELSE IF JsonParsesText(str) THEN q
        ELSE LegacyParse(q, str)

\* The 'data' event of transport s, while at most limit button events have
\* been decoded.
Receive(s, chunk, limit) ==
  /\ sockets[s].status = "open"
  /\ arrivals + Len(chunk.events) <= limit
  /\ Store(DataHandler(Self, chunk))
  /\ UNCHANGED <<connVars, accessory, launched, now>>

OnData(s, chunk) == Receive(s, chunk, MaxEvents)

\* The reset timer of a triggered virtual switch fires: On = false.
TriggerReset ==
  /\ resetTimers # <<>>
  /\ resetTimers' = Tail(resetTimers)
  /\ switchOn' = switchOn \ {Head(resetTimers)}
  /\ notified' = <<[kind |-> "reset", key |-> Head(resetTimers)]>>
  /\ written' = <<>>
  /\ handled' = <<>>
  /\ UNCHANGED <<connVars, hostVars, eventQueue, buttonStates, ledColor,
                 currentColorIndex, lastRawData, mappingSwitches, requests,
                 pressTimers, now, logVars>>

\* The 'error' event of a request of executeUrlAction: the handler logs.
RequestError ==
  /\ requests > 0
  /\ requests' = requests - 1
  /\ notified' = <<>>
  /\ written' = <<>>
  /\ handled' = <<>>
  /\ UNCHANGED <<connVars, hostVars, eventQueue, buttonStates, ledColor,
                 currentColorIndex, lastRawData, mappingSwitches, resetTimers,
                 switchOn, pressTimers, now, logVars>>

\* The response of a request of executeUrlAction ends: the handlers of its
\* 'data' and 'end' events do nothing.
ResponseEnd ==
  /\ requests > 0
  /\ requests' = requests - 1
  /\ notified' = <<>>
  /\ written' = <<>>
  /\ handled' = <<>>
  /\ UNCHANGED <<connVars, hostVars, eventQueue, buttonStates, ledColor,
                 currentColorIndex, lastRawData, mappingSwitches, resetTimers,
                 switchOn, pressTimers, now, logVars>>

(***************************************************************************)
(* Commands called from outside the session (the LED service's handlers).  *)
(***************************************************************************)
SetLedCall(c) ==
  /\ Store(setLED(Self, c.r, c.g, c.b))
  /\ UNCHANGED <<connVars, accessory, launched, now>>

QueryLedCall ==
  /\ written' = QueryLED(connected)
  /\ handled' = <<>>
  /\ notified' = <<>>
  /\ UNCHANGED <<connVars, hostVars, buttonVars, now, logVars>>

\* A call of getCurrentMode(); its result is noted.
Classify ==
  /\ notified' = <<[kind |-> "mode", mode |-> getCurrentMode(ledColor)]>>
  /\ written' = <<>>
  /\ handled' = <<>>
  /\ UNCHANGED <<connVars, hostVars, buttonVars, now, logVars>>

(***************************************************************************)
(* Host life cycle.  The host calls configureAccessory and emits           *)
(* didFinishLaunching when it chooses; socket events may come before, in   *)
(* between and after (the event queue exists for those that come before).  *)
(***************************************************************************)
\* configureAccessory for the cached main accessory (ten button services
\* and the LED service), which the host restores before didFinishLaunching.
ConfigureAccessory ==
  /\ ~launched
  /\ ~accessory
  /\ accessory' = TRUE
  /\ buttonServices' = Buttons
  /\ lightService' = TRUE
  /\ notified' = <<[kind |-> "reach", value |-> connected]>>
  /\ written' = <<>>
  /\ handled' = <<>>
  /\ UNCHANGED <<connVars, launched, buttonVars, now, logVars>>

\* configureAccessory for the cached child accessory of mapping k: its Switch
\* service is stored and its On characteristic set to false.
ConfigureChild(k) ==
  /\ ~launched
  /\ getMappingKey(buttonMappings[k]) \notin mappingSwitches
  /\ mappingSwitches' = mappingSwitches \cup {getMappingKey(buttonMappings[k])}
  /\ switchOn' = switchOn \ {getMappingKey(buttonMappings[k])}
  /\ notified' = <<>>
  /\ written' = <<>>
  /\ handled' = <<>>
  /\ UNCHANGED <<connVars, hostVars, eventQueue, buttonStates, ledColor,
                 currentColorIndex, lastRawData, resetTimers, requests,
                 pressTimers, now, logVars>>

\* didFinishLaunching: buildAndRegisterAccessories(), processQueuedEvents();
\* the catch around the two logs.
DidFinishLaunching ==
  /\ ~launched
  /\ launched' = TRUE
  /\ accessory' = TRUE
  /\ Store(processQueuedEvents(
             [Self EXCEPT !.buttonServices = Buttons, !.lightService = TRUE,
                          !.mappingSwitches =
                             {getMappingKey(buttonMappings[k]) :
                                k \in 1 .. Len(buttonMappings)},
                          !.switchOn = {},
                          !.notified = <<[kind |-> "reach", value |-> connected]>>]))
  /\ UNCHANGED <<connVars, now>>

\* The 'data' event of transport s in the timer-based handler.
OnDataTimed(s, chunk) ==
  /\ sockets[s].status = "open"
  /\ chunk.kind = "object"
  /\ arrivals + Len(chunk.events) <= MaxTimedEvents
  /\ Store(DataHandlerTimed(Self, chunk))
  /\ UNCHANGED <<connVars, accessory, launched, now>>

\* The long-press timer of button i fires, LongPressDelay or more after the
\* press that set it: triggerButtonEvent(buttonIndex, 2); bs.timer = null.
LongPressTimer(i) ==
  /\ i \in pressTimers
  /\ now >= buttonStates[i].lastPress + LongPressDelay
  /\ Store(triggerButtonEvent([Self EXCEPT !.pressTimers = @ \ {i}], i, "long"))
  /\ UNCHANGED <<connVars, accessory, launched, now>>

\* accessories(callback) of the timer-based handler: the accessory with its
\* ten button services and the LED service.
Accessories ==
  /\ ~accessory
  /\ accessory' = TRUE
  /\ buttonServices' = Buttons
  /\ lightService' = TRUE
  /\ notified' = <<>>
  /\ written' = <<>>
  /\ handled' = <<>>
  /\ UNCHANGED <<connVars, launched, buttonVars, now, logVars>>

\* Date.now() advances by a tenth of a second.
ClockTick ==
  /\ now < MaxClock
  /\ now' = now + 1
  /\ written' = <<>>
  /\ handled' = <<>>
  /\ notified' = <<>>
  /\ UNCHANGED <<connVars, hostVars, buttonVars, logVars>>

\* Time passes.
Tick ==
  /\ now < MaxTime
  /\ now' = now + 1
  /\ written' = <<>>
  /\ handled' = <<>>
  /\ notified' = <<>>
  /\ UNCHANGED <<connVars, hostVars, buttonVars, logVars>>

(***************************************************************************)
(* Inputs.                                                                 *)
(***************************************************************************)
KeyLabel(d) == <<"K", "e", "y", " ">> \o d

Ev(d, st) == [label |-> KeyLabel(d), state |-> st]

\* Press and release of button 1 and of button 10.
ButtonEvents ==
  {Ev(<<"1">>, <<"1">>), Ev(<<"1">>, <<"0">>),
   Ev(<<"1", "0">>, <<"1">>), Ev(<<"1", "0">>, <<"0">>)}

EventChunks == {ObjectChunk(<<>>, <<e>>) : e \in ButtonEvents}

LedDecimal == LedEq \o <<"2", "5", "5", "1", "2", "8", "0", "0", "0">>
LedHex == LedEq \o <<"#", "F", "F", "8", "0", "0", "0">>
LedTooBig == LedEq \o <<"9", "9", "9", "0", "0", "0", "0", "0", "0">>
LedLetters == LedEq \o <<"a", "b", "c">>
LedOff == LedEq \o <<"0", "0", "0", "0", "0", "0", "0", "0", "0">> \o <<"\r">>

LedChunks == {TextChunk(t) : t \in {LedDecimal, LedHex, LedTooBig, LedLetters, LedOff}}

\* Bare nine-digit replies, with no led= prefix.
BareHigh == <<"2", "5", "5", "1", "2", "8", "0", "0", "0">>
BareLow == <<"0", "0", "0", "1", "2", "8", "2", "5", "5">>

BareChunks == {TextChunk(BareHigh), TextChunk(BareLow)}

\* A press and the release of one key in one chunk.
PressRelease(d) == ObjectChunk(<<>>, <<Ev(d, <<"1">>), Ev(d, <<"0">>)>>)

\* A JSON reply with a led field: blue.
LedBlueReport ==
  ObjectChunk(<<"0", "0", "0", "0", "0", "0", "2", "5", "5">>, <<>>)

\* Key 10 pressed and released, and an LED report.
CycleChunks == {PressRelease(<<"1", "0">>), LedBlueReport}

\* JSON replies with a led field: red, a dimmer red, blue and off.
ModeReports ==
  {ObjectChunk(led, <<>>) :
     led \in {<<"2", "5", "5", "0", "0", "0", "0", "0", "0">>,
              <<"1", "2", "8", "0", "0", "0", "0", "0", "0">>,
              <<"0", "0", "0", "0", "0", "0", "2", "5", "5">>,
              <<"0", "0", "0", "0", "0", "0", "0", "0", "0">>}}

\* Keys 1 to 9 pressed and released, and the LED reports that change the mode.
DispatchChunks ==
  {PressRelease(<<d>>) : d \in {"1", "2", "3", "4", "5", "6", "7", "8", "9"}}
    \cup ModeReports

\* The mappings whose child accessory the host has cached and restores: the
\* first "red" mapping of button 2 and the mapping of button 5.
CachedMappings == {2, 7}

\* Well-formed LED reports in each form the panel sends (led= text, bare nine
\* digits, JSON led field), each with the color it reports.
Reports ==
  {[chunk |-> TextChunk(LedDecimal), color |-> RGB(255, 128, 0)],
   [chunk |-> TextChunk(LedOff), color |-> RGB(0, 0, 0)],
   [chunk |-> TextChunk(BareLow), color |-> RGB(0, 128, 255)],
   [chunk |-> LedBlueReport, color |-> RGB(0, 0, 255)]}

\* One chunk with three events: key d pressed and released, then key e
\* pressed.
Batch(d, e) ==
  ObjectChunk(<<>>, <<Ev(<<d>>, <<"1">>), Ev(<<d>>, <<"0">>), Ev(<<e>>, <<"1">>)>>)

BatchChunks == {Batch(d, e) : d \in {"3", "5", "6"}, e \in {"1", "2"}}

\* Channel levels: off, dimmest, a quarter, a half and full.
SampleLevels == {0, 1, 64, 128, 255}

SampleColors == {RGB(r, g, b) : r, g, b \in SampleLevels}

\* A channel as the panel reports it: three decimal digits.
Digits3(n) ==
  <<Digits[(n \div 100) + 1], Digits[((n \div 10) % 10) + 1], Digits[(n % 10) + 1]>>

\* The JSON reply whose led field reports color c.
ColorReport(c) == ObjectChunk(Digits3(c.r) \o Digits3(c.g) \o Digits3(c.b), <<>>)

\* A JSON reply with a led field: off.
LedOffReport ==
  ObjectChunk(<<"0", "0", "0", "0", "0", "0", "0", "0", "0">>, <<>>)

\* Key 2 (a mapped button) pressed and released, and an LED report.
FrameChunks == {PressRelease(<<"2">>), LedOffReport}

\* The colors of the set commands called from outside: red and off.
CallColors == {RGB(255, 0, 0), RGB(0, 0, 0)}

(***************************************************************************)
(* Specifications.                                                         *)
(***************************************************************************)
ConnNext ==
  \/ ReconnectTimer
  \/ KeepAliveTick
  \/ Shutdown
  \/ ConfigureAccessory
  \/ DidFinishLaunching
  \/ \E s \in SocketIds : ConnectCallback(s)
  \/ \E s \in SocketIds : SocketError(s)
  \/ \E s \in SocketIds : SocketClose(s)
  \/ \E s \in SocketIds : SocketTimeout(s)
  \/ \E s \in SocketIds : TransportEnd(s)

\* The session and the host life cycle.
Spec == Init /\ [][ConnNext]_vars

\* The session alone, under the fairness its scheduling gives: a pending
\* reconnect timer fires, the 'close' event of a destroyed transport is
\* delivered, and a connect attempt that does not fail succeeds.
LiveNext ==
  \/ ReconnectTimer
  \/ Shutdown
  \/ \E s \in SocketIds : ConnectCallback(s)
  \/ \E s \in SocketIds : SocketError(s)
  \/ \E s \in SocketIds : SocketClose(s)
  \/ \E s \in SocketIds : SocketTimeout(s)
  \/ \E s \in SocketIds : TransportEnd(s)

ConnectOf(s) == s \in SocketIds /\ ConnectCallback(s)

CloseOf(s) == s \in SocketIds /\ SocketClose(s)

LiveSpec ==
  /\ Init
  /\ [][LiveNext]_vars
  /\ WF_vars(ReconnectTimer)
  /\ \A s \in 1 .. MaxSockets : WF_vars(CloseOf(s)) /\ WF_vars(ConnectOf(s))

TimeoutOf(s) == s \in SocketIds /\ SocketTimeout(s)

\* The session under the fairness of LiveSpec and with a silent panel: the
\* idle timeout set by socket.setTimeout(this.timeout) fires on every
\* transport that stays open or connecting.
QuietSpec ==
  /\ Init
  /\ [][LiveNext]_vars
  /\ WF_vars(ReconnectTimer)
  /\ \A s \in 1 .. MaxSockets :
       WF_vars(CloseOf(s)) /\ WF_vars(ConnectOf(s)) /\ WF_vars(TimeoutOf(s))

\* The session whose transports fail only by an error or by a timeout.
FaultNext ==
  \/ ReconnectTimer
  \/ ConfigureAccessory
  \/ \E s \in SocketIds : ConnectCallback(s)
  \/ \E s \in SocketIds : SocketError(s)
  \/ \E s \in SocketIds : SocketClose(s)
  \/ \E s \in SocketIds : SocketTimeout(s)

FaultSpec == Init /\ [][FaultNext]_vars

\* The session with the keepalive running and LED commands called from
\* outside in every phase.
CmdNext ==
  \/ LiveNext
  \/ KeepAliveTick
  \/ QueryLedCall
  \/ \E c \in CallColors : SetLedCall(c)

CmdSpec == Init /\ [][CmdNext]_vars

\* The session of src/unnamed/part_001, whose 'error', 'close' and 'timeout'
\* handlers and keepalive callback act on the session as those of index.js
\* do, with its own connect callback.
KeepHandleNext ==
  \/ ReconnectTimer
  \/ KeepAliveTick
  \/ \E s \in SocketIds : ConnectCallbackKeepsHandle(s)
  \/ \E s \in SocketIds : SocketError(s)
  \/ \E s \in SocketIds : SocketClose(s)
  \/ \E s \in SocketIds : SocketTimeout(s)
  \/ \E s \in SocketIds : TransportEnd(s)

KeepHandleSpec == Init /\ [][KeepHandleNext]_vars

\* The session with LED replies arriving.
LedNext ==
  \/ ConnNext
  \/ \E s \in SocketIds, chunk \in LedChunks : OnData(s, chunk)

LedSpec == Init /\ [][LedNext]_vars

\* The session with bare nine-digit replies arriving.
BareNext ==
  \/ ConnNext
  \/ \E s \in SocketIds, chunk \in BareChunks : OnData(s, chunk)

BareSpec == Init /\ [][BareNext]_vars

\* The session with button events arriving and time passing; transports
\* end by the panel closing them or by a timeout.
ButtonNext ==
  \/ ReconnectTimer
  \/ Shutdown
  \/ ConfigureAccessory
  \/ DidFinishLaunching
  \/ Tick
  \/ \E s \in SocketIds : ConnectCallback(s)
  \/ \E s \in SocketIds : SocketClose(s)
  \/ \E s \in SocketIds : TransportEnd(s)
  \/ \E s \in SocketIds : SocketTimeout(s)
  \/ \E s \in SocketIds, chunk \in EventChunks : OnData(s, chunk)

ButtonSpec == Init /\ [][ButtonNext]_vars

\* One session on which key 10 is pressed again and again.
CycleNext ==
  \/ ConfigureAccessory
  \/ DidFinishLaunching
  \/ \E s \in SocketIds : ConnectCallback(s)
  \/ \E s \in SocketIds, chunk \in CycleChunks :
       Receive(s, chunk, MaxCycleEvents)

CycleSpec == Init /\ [][CycleNext]_vars

\* One session on which mapped keys are pressed in different modes.
DispatchNext ==
  \/ ConfigureAccessory
  \/ DidFinishLaunching
  \/ TriggerReset
  \/ RequestError
  \/ ResponseEnd
  \/ \E k \in CachedMappings : ConfigureChild(k)
  \/ \E s \in SocketIds : ConnectCallback(s)
  \/ \E s \in SocketIds, chunk \in DispatchChunks : OnData(s, chunk)

DispatchSpec == Init /\ [][DispatchNext]_vars

\* The same, with every pending reset timer of a virtual trigger firing.
PulseSpec == Init /\ [][DispatchNext]_vars /\ WF_vars(TriggerReset)

\* The first transport of the session, with well-formed LED reports arriving.
ReportNext ==
  \/ Shutdown
  \/ ConfigureAccessory
  \/ \E s \in SocketIds : ConnectCallback(s)
  \/ \E s \in SocketIds : SocketError(s)
  \/ \E s \in SocketIds : SocketClose(s)
  \/ \E s \in SocketIds, rep \in Reports : OnData(s, rep.chunk)

ReportSpec == Init /\ [][ReportNext]_vars

\* One session on which batches of three events arrive.
BatchNext ==
  \/ ConfigureAccessory
  \/ DidFinishLaunching
  \/ TriggerReset
  \/ RequestError
  \/ ResponseEnd
  \/ \E k \in CachedMappings : ConfigureChild(k)
  \/ \E s \in SocketIds : ConnectCallback(s)
  \/ \E s \in SocketIds, chunk \in BatchChunks : OnData(s, chunk)

BatchSpec == Init /\ [][BatchNext]_vars

\* One session on which the panel reports colors, which are classified.
ClassifyNext ==
  \/ Classify
  \/ \E s \in SocketIds : ConnectCallback(s)
  \/ \E s \in SocketIds, c \in SampleColors : OnData(s, ColorReport(c))

ClassifySpec == Init /\ [][ClassifyNext]_vars

\* The session with everything that could touch the LED state: transport
\* faults and reconnects, shutdown, keepalive ticks, the queue flush, button
\* events, LED reports and set commands called from outside (both for the
\* color off).
FrameNext ==
  \/ ReconnectTimer
  \/ Shutdown
  \/ KeepAliveTick
  \/ DidFinishLaunching
  \/ SetLedCall(RGB(0, 0, 0))
  \/ \E s \in SocketIds : ConnectCallback(s)
  \/ \E s \in SocketIds : SocketError(s)
  \/ \E s \in SocketIds : SocketClose(s)
  \/ \E s \in SocketIds : SocketTimeout(s)
  \/ \E s \in SocketIds, chunk \in FrameChunks :
       Receive(s, chunk, MaxFrameEvents)

FrameSpec == Init /\ [][FrameNext]_vars

\* Button events of key 1 and events that name no key of the keypad ("Key 0",
\* "Key 11") or no state of a key (2), alone or two in a chunk.
GoodEvents == {Ev(<<"1">>, <<"1">>), Ev(<<"1">>, <<"0">>)}

BadEvents ==
  {Ev(<<"0">>, <<"1">>), Ev(<<"0">>, <<"0">>), Ev(<<"1", "1">>, <<"1">>),
   Ev(<<"1", "1">>, <<"0">>), Ev(<<"1">>, <<"2">>)}

RangeChunks ==
  {ObjectChunk(<<>>, <<e>>) : e \in GoodEvents \cup BadEvents}
    \cup {ObjectChunk(<<>>, <<e, f>>) :
            e \in GoodEvents \cup BadEvents, f \in GoodEvents \cup BadEvents}

RangeNext ==
  \/ ConfigureAccessory
  \/ DidFinishLaunching
  \/ \E s \in SocketIds : ConnectCallback(s)
  \/ \E s \in SocketIds, chunk \in RangeChunks : OnData(s, chunk)

RangeSpec == Init /\ [][RangeNext]_vars

\* One session on which keys 2 and 3 are pressed and released up to twice,
\* so that a virtual trigger can be pulsed while its reset is pending.
RepulseChunks == {PressRelease(<<"2">>), PressRelease(<<"3">>)}

RepulseNext ==
  \/ ConfigureAccessory
  \/ DidFinishLaunching
  \/ TriggerReset
  \/ RequestError
  \/ ResponseEnd
  \/ \E s \in SocketIds : ConnectCallback(s)
  \/ \E s \in SocketIds, chunk \in RepulseChunks :
       Receive(s, chunk, MaxPulseEvents)

RepulseSpec == Init /\ [][RepulseNext]_vars

\* The timer-based handler: presses and releases of two keys arrive one per
\* chunk while the clock advances and the long-press timers fire.
TimedKeys == {<<"1">>, <<"2">>}

TimedChunks ==
  {ObjectChunk(<<>>, <<Ev(d, st)>>) : d \in TimedKeys, st \in {<<"1">>, <<"0">>}}

TimerNext ==
  \/ Accessories
  \/ ClockTick
  \/ \E s \in SocketIds : ConnectCallbackKeepsHandle(s)
  \/ \E s \in SocketIds, chunk \in TimedChunks : OnDataTimed(s, chunk)
  \/ \E i \in Buttons : LongPressTimer(i)

TimerSpec == Init /\ [][TimerNext]_vars

(***************************************************************************)
(* Properties.                                                             *)
(***************************************************************************)
ButtonNotes(i) ==
  SelectSeq(notified, LAMBDA n : n.kind = "button" /\ n.button = i)

DispatchNotes ==
  SelectSeq(notified, LAMBDA n : n.kind = "dispatch")

\* The last step handed exactly one event to the state machine: state st of
\* button index i.
HandledOne(i, st) ==
  /\ Len(handled) = 1
  /\ handled[1].buttonIndex = i
  /\ handled[1].state = st

\* C1: a transport whose 'error' event came while the session was Connected
\* and shutdown was not signalled has, once its 'close' event has been
\* handled too, caused exactly one reconnect timer to be scheduled.
C1_OneReconnectPerError ==
  \A s \in SocketIds :
    (sockets[s].status = "closed" /\ sockets[s].errorWhileConnected)
      => sockets[s].scheduled = 1

\* C2: once shutdown has been signalled, connect() is not invoked again: no
\* step creates a transport.
C2_NoConnectAfterShutdown ==
  [][isShuttingDown => Len(sockets') = Len(sockets)]_vars

\* C3: at most one transport created by the instance is open or connecting.
C3_AtMostOneLiveTransport ==
  Cardinality({s \in SocketIds : Live(s)}) <= 1

\* C4: once the queue has been flushed (and shutdown has not been signalled),
\* the events that were queued have each reached the button state machine
\* exactly once and in arrival order.
C4_QueuedEventsAllHandled ==
  (launched /\ ~isShuttingDown)
    => SelectSeq(handledSeqs,
                 LAMBDA n : \E k \in 1 .. Len(queuedSeqs) : queuedSeqs[k] = n)
         = queuedSeqs

\* C5: events reach the button state machine in the order of their arrival.
C5_HandledInArrivalOrder ==
  \A j, k \in 1 .. Len(handledSeqs) :
    j < k => handledSeqs[j] < handledSeqs[k]

\* C6: a press handled for an Idle button makes it Pressed without a
\* completion; the button then stays Pressed, with no completion, through
\* every step that hands it no release; and a release handled while it is
\* Pressed makes it Idle and produces exactly one single-press completion:
\* one outward button notification and one dispatcher invocation for it.
C6_PressThenReleaseCompletesOnce ==
  [][\A i \in Buttons :
       /\ (HandledOne(i, 1)' /\ buttonStates[i].state = 0)
            => /\ buttonStates'[i] = [state |-> 1, lastPress |-> now]
               /\ completions'[i] = completions[i]
               /\ Len(ButtonNotes(i)') = 0
               /\ Len(DispatchNotes') = 0
       /\ (buttonStates[i].state = 1
             /\ \A k \in 1 .. Len(handled') :
                  ~(handled'[k].buttonIndex = i /\ handled'[k].state = 0))
            => /\ buttonStates'[i].state = 1
               /\ completions'[i] = completions[i]
               /\ Len(ButtonNotes(i)') = 0
       /\ (HandledOne(i, 0)' /\ buttonStates[i].state = 1)
            => /\ buttonStates'[i].state = 0
               /\ completions'[i] = completions[i] + 1
               /\ Len(ButtonNotes(i)') = 1
               /\ DispatchNotes' = <<[kind |-> "dispatch", button |-> i + 1]>>
    ]_vars

\* C6 witness: a release has just completed a single press of button 10
\* (index 9): the button is Idle again, with one notification and one
\* dispatch in that step.
C6_Witness ==
  /\ HandledOne(9, 0)
  /\ presses[9] = 1
  /\ completions[9] = 1
  /\ buttonStates[9].state = 0
  /\ Len(ButtonNotes(9)) = 1
  /\ DispatchNotes = <<[kind |-> "dispatch", button |-> 10]>>

\* C7: a press handled for a button that is already Pressed leaves its
\* ButtonState (phase and lastPress) unchanged and produces no notification
\* and no dispatch.
C7_RepeatedPressIgnored ==
  [][\A i \in Buttons :
       (HandledOne(i, 1)' /\ buttonStates[i].state = 1)
         => /\ buttonStates'[i] = buttonStates[i]
            /\ Len(ButtonNotes(i)') = 0
            /\ Len(DispatchNotes') = 0
    ]_vars

\* C8: a release handled for an Idle button changes no ButtonState, sends no
\* button notification and invokes no dispatcher; and in every state the
\* completions of a button do not exceed the presses handled for it.
C8_StrayReleaseNoOp ==
  /\ [](\A i \in Buttons : completions[i] <= presses[i])
  /\ [][\A i \in Buttons :
          (HandledOne(i, 0)' /\ buttonStates[i].state = 0)
            => /\ buttonStates' = buttonStates
               /\ completions' = completions
               /\ Len(ButtonNotes(i)') = 0
               /\ Len(DispatchNotes') = 0
               /\ written' = <<>>
               /\ ledColor' = ledColor
       ]_vars

\* C8 witness: a release has just been handled for an Idle button that was
\* pressed and completed before.
C8_Witness ==
  /\ HandledOne(0, 0)
  /\ buttonStates[0].state = 0
  /\ Len(ButtonNotes(0)) = 0
  /\ completions[0] = 1
  /\ presses[0] = 1

\* C9: the components of DeviceColor are integers in 0..255 in every state.
C9_ColorInRange ==
  /\ ledColor.r \in 0 .. 255
  /\ ledColor.g \in 0 .. 255
  /\ ledColor.b \in 0 .. 255

\* C10: after the reply led=#FF8000 and after the reply led=255128000 the
\* DeviceColor is (255,128,0).
C10_HexAndDecimalDecodeAlike ==
  lastRawData \in {LedHex, LedDecimal} => ledColor = RGB(255, 128, 0)

\* C11: after a chunk of exactly nine decimal digits, 255128000 or 000128255,
\* the DeviceColor is the three decoded fields.
C11_BareNineDigitsAccepted ==
  /\ lastRawData = BareHigh => ledColor = RGB(255, 128, 0)
  /\ lastRawData = BareLow => ledColor = RGB(0, 128, 255)

\* C12: in every step the color-cycle position advances, modulo the length
\* of the cycle, by the number of single-press completions of button 10 in
\* that step, and no mapping of button 10 is looked up or selected.
C12_Button10AdvancesCycle ==
  [][/\ currentColorIndex' =
          (currentColorIndex + completions'[9] - completions[9])
            % Len(colorCycle)
     /\ \A k \in 1 .. Len(notified') :
          /\ notified'[k].kind = "lookup" => notified'[k].button # NumButtons
          /\ notified'[k].kind = "select"
               => notified'[k].mapping.buttonNumber # NumButtons
    ]_vars

\* C12 witness: the sixth completion of button 10 has just wrapped the
\* position from the last entry (white) to the first (red).
C12_Witness ==
  /\ completions[9] = Len(colorCycle)
  /\ currentColorIndex = 0
  /\ Len(handled) > 0
  /\ handled[Len(handled)].buttonIndex = 9
  /\ Len(DispatchNotes) > 0

\* C13: whenever DeviceColor is the canonical color of cycle entry k, a step
\* with one single-press completion of button 10 while Connected leaves
\* DeviceColor at the canonical color of the entry after k (the first after
\* the last).
C13_CycleFollowsDeviceColor ==
  [][\A k \in 1 .. Len(colorCycle) :
       (/\ ledColor = modeColors[colorCycle[k]]
        /\ connected
        /\ completions'[9] = completions[9] + 1)
         => ledColor' = modeColors[colorCycle[(k % Len(colorCycle)) + 1]]
    ]_vars

\* The mappings configured for button n, and those of them with mode m.
MappingsOf(n) ==
  {buttonMappings[k] : k \in {j \in 1 .. Len(buttonMappings) :
                                 buttonMappings[j].buttonNumber = n}}

MappingsOfMode(n, m) == {a \in MappingsOf(n) : a.modeColor = m}

\* C14: every mapping lookup of the last step (a single press of a button
\* 1..9) is followed by the selection of one mapping exactly when the button
\* has a mapping of the current mode or an "any" mapping; the selected one
\* is of the current mode when the button has such a mapping and an "any"
\* mapping only otherwise; and nothing is selected or executed without it.
C14_ExactModeBeforeAny ==
  \A k \in 1 .. Len(notified) :
    /\ notified[k].kind = "lookup" =>
         LET n == notified[k].button
             mode == getCurrentMode(ledColor)
             exact == MappingsOfMode(n, mode)
             anys == MappingsOfMode(n, "any")
             selects == k < Len(notified) /\ notified[k + 1].kind = "select"
         IN  /\ n \in 1 .. (NumButtons - 1)
             /\ selects <=> (exact \cup anys # {})
             /\ selects =>
                  notified[k + 1].mapping \in
                    (IF exact # {} THEN exact ELSE anys)
    /\ notified[k].kind = "select" =>
         k > 1 /\ notified[k - 1].kind = "lookup"
    /\ notified[k].kind \in {"virtual", "url", "setValue"} =>
         k > 1 /\ notified[k - 1].kind = "select"

\* C14 witness: button 2, whose "any" mapping is listed first, has just
\* been pressed in mode red and its first "red" mapping was selected.
C14_Witness ==
  /\ getCurrentMode(ledColor) = "red"
  /\ \E k \in 2 .. Len(notified) :
       /\ notified[k].kind = "select"
       /\ notified[k].mapping = buttonMappings[2]
       /\ notified[k - 1] = [kind |-> "lookup", button |-> 2]

\* The status of the n-th transport, "none" before connect() has created it.
StatusOf(n) == IF n \in SocketIds THEN sockets[n].status ELSE "none"

\* A transport error, close or timeout has left a 'close' event or a
\* reconnect timer pending.
RecoveryPending ==
  \/ reconnectTimers > 0
  \/ \E s \in SocketIds : sockets[s].status = "closing"

\* C15: every 'error', 'close' and 'timeout' handler that runs while
\* shutdown has not been signalled leaves a 'close' event or a reconnect
\* timer pending; while shutdown has not been signalled, that leads to a new
\* connect attempt (or to shutdown); and every connect attempt leads to the
\* session being Connected on it, unless the attempt fails.
C15_ReconnectEventually ==
  /\ [][(/\ ~isShuttingDown
          /\ \E s \in SocketIds :
               SocketError(s) \/ SocketClose(s) \/ SocketTimeout(s))
         => RecoveryPending']_vars
  /\ \A n \in 1 .. (MaxSockets - 1) :
       (Len(sockets) = n /\ ~isShuttingDown /\ RecoveryPending)
         ~> (Len(sockets) > n \/ isShuttingDown)
  /\ \A n \in 1 .. MaxSockets :
       (StatusOf(n) = "connecting")
         ~> (\/ StatusOf(n) = "open" /\ connected
             \/ StatusOf(n) \in {"closing", "closed"})

\* C15 witness: the first transport is closed and the session is Connected
\* again on a second one.
C15_Witness ==
  /\ Len(sockets) >= 2
  /\ sockets[1].status = "closed"
  /\ sockets[2].status = "open"
  /\ socket = 2
  /\ connected
  /\ ~isShuttingDown

\* C16: where transports are torn down only by an error or by a timeout,
\* every transport has, once its 'close' event has been handled, caused the
\* same number of reconnect timers to be scheduled.
C16_TimeoutLikeError ==
  \A s, t \in SocketIds :
    (sockets[s].status = "closed" /\ sockets[t].status = "closed")
      => sockets[s].scheduled = sockets[t].scheduled

\* C17: a transport whose 'error' event came while the session was
\* Connected and shutdown was not signalled has, once its 'close' event has
\* been handled too, caused at most one reachability-false notification.
C17_OneNotificationPerError ==
  \A s \in SocketIds :
    (sockets[s].status = "closed" /\ sockets[s].errorWhileConnected)
      => sockets[s].reachFalse <= 1

\* C18: a setLED(r, g, b) call writes nothing and leaves DeviceColor as it
\* is unless the session is Connected and not shutting down; when it is, the
\* call writes exactly one set command, for (r, g, b), and DeviceColor is
\* (r, g, b) when the call returns.
C18_SetLedGuarded ==
  [][\A c \in CallColors :
       SetLedCall(c) =>
         IF connected /\ ~isShuttingDown
         THEN /\ written' = <<[op |-> "set", to |-> socket,
                                r |-> c.r, g |-> c.g, b |-> c.b]>>
              /\ ledColor' = c
         ELSE /\ written' = <<>>
              /\ ledColor' = ledColor
    ]_vars

\* C18 witness: a set command for red has just been written on the
\* Connected session and DeviceColor is red.
C18_Witness ==
  /\ connected
  /\ ~isShuttingDown
  /\ Len(written) = 1
  /\ written[1].op = "set"
  /\ ledColor = RGB(255, 0, 0)

\* C19: whatever the last step wrote to the transport, it wrote it while the
\* session was Connected and shutdown had not been signalled.
C19_NoWriteUnlessConnected ==
  written # <<>> => (connected /\ ~isShuttingDown)

\* C19 witness: the keepalive interval is still running on a session that is
\* no longer Connected (the 'error' handler has run, the 'close' handler not
\* yet), and the last step wrote nothing.
C19_Witness ==
  /\ keepAliveInterval = "active"
  /\ ~connected
  /\ sockets[socket].status = "closing"
  /\ written = <<>>

\* C20: whenever the session is Connected (and shutdown has not been
\* signalled), after the first connection and after every reconnection, the
\* keepalive interval is running.
C20_KeepAliveWhileConnected ==
  (connected /\ ~isShuttingDown) => keepAliveInterval = "active"

\* C21: in every state in which the session is Disconnected or shutdown has
\* been signalled, no keepalive interval is active.
C21_NoKeepAliveWhenDown ==
  (~connected \/ isShuttingDown) => keepAliveInterval # "active"

\* C22: an LED report received while the session is Connected sets DeviceColor
\* to the reported color and, when the light service is present, sends exactly
\* one light-state notification computed from the new color, on exactly when
\* its brightness is above zero; without the light service it sends none.
C22_ReportSetsColorAndNotifies ==
  [][\A s \in SocketIds, rep \in Reports :
       (OnData(s, rep.chunk) /\ connected /\ ~isShuttingDown)
         => /\ ledColor' = rep.color
            /\ notified' =
                 IF lightService
                 THEN <<[kind |-> "light", color |-> rep.color,
                         on |-> Max3(rep.color.r, rep.color.g, rep.color.b) > 0]>>
                 ELSE <<>>]_vars

C22_Witness ==
  /\ connected
  /\ lightService
  /\ ledColor = RGB(0, 0, 0)
  /\ notified = <<[kind |-> "light", color |-> RGB(0, 0, 0), on |-> FALSE]>>

\* The actions executed by a step whose notes are seq: virtual-trigger
\* pulses, URL requests and values set on a target.
ExecNotes(seq) ==
  SelectSeq(seq, LAMBDA n : n.kind \in {"virtual", "url", "setValue"})

\* The single press of key d is a dispatch fault in the current state: the
\* button has no mapping (key 1) or none for the current mode (key 4 unless
\* the mode is blue), or its mapping has no virtual trigger yet and names a
\* target the host does not know (key 6), a target with no Switch or
\* Lightbulb service (key 7) or an action that is none of toggle, on and off
\* (key 8).
DispatchFault(d) ==
  \/ d = "1"
  \/ d = "4" /\ getCurrentMode(ledColor) # "blue"
  \/ d \in {"6", "7", "8"} /\ ~launched

\* C23: a single press whose dispatch is a fault is completed as any other:
\* the button is Idle again, its single-press notification is sent once, and
\* the dispatch executes nothing and writes nothing: DeviceColor, the cycle
\* position, the event queue, the connection, the virtual triggers and their
\* timers and the requests in flight are unchanged.
C23_DispatchFaultIsNoOp ==
  [][\A s \in SocketIds, d \in {"1", "4", "6", "7", "8"} :
       (/\ OnData(s, PressRelease(<<d>>))
        /\ connected /\ ~isShuttingDown /\ buttonServices # {}
        /\ DispatchFault(d))
       => LET i == DigitVal(d) - 1
          IN  /\ buttonStates'[i].state = 0
              /\ completions'[i] = completions[i] + 1
              /\ SelectSeq(notified', LAMBDA n : n.kind = "button")
                   = <<[kind |-> "button", button |-> i]>>
              /\ ExecNotes(notified') = <<>>
              /\ written' = <<>>
              /\ UNCHANGED <<ledColor, currentColorIndex, eventQueue, connVars,
                             switchOn, resetTimers, requests>>]_vars

\* C23 witness: the press of key 6, whose mapping names an accessory the host
\* does not know, has just been completed and its mapping selected.
C23_Witness ==
  /\ completions[5] = 1
  /\ buttonStates[5].state = 0
  /\ \E k \in 1 .. Len(notified) :
       notified[k].kind = "select" /\ notified[k].mapping.targetName = "Ghost"

\* C24: every entry of a received batch is handed on, in the order of the
\* batch: to the event queue while no button service exists, and otherwise,
\* while Connected, to the button state machine, whatever happens while an
\* earlier entry of the batch is notified or dispatched.
C24_EveryBatchEntryHandled ==
  [][\A s \in SocketIds, chunk \in BatchChunks :
       (OnData(s, chunk) /\ connected /\ ~isShuttingDown)
       => LET seqs == [k \in 1 .. Len(chunk.events) |-> arrivals + k]
          IN  /\ arrivals' = arrivals + Len(chunk.events)
              /\ IF buttonServices = {}
                 THEN queuedSeqs' = queuedSeqs \o seqs
                 ELSE handledSeqs' = handledSeqs \o seqs]_vars

\* The notes that follow the k-th note of the last step up to the next
\* selection of a mapping.
NotesOfSelection(k) ==
  LET later == {j \in (k + 1) .. Len(notified) : notified[j].kind = "select"}
      last == IF later = {} THEN Len(notified)
              ELSE (CHOOSE j \in later : \A i \in later : j <= i) - 1
  IN  SubSeq(notified, k + 1, last)

\* C25: for every mapping selected in the last step, the dispatcher executed
\* exactly the pulse of the mapping's virtual trigger when that trigger
\* exists, and otherwise at most one direct action and no pulse.
C25_PulseOrDirectAction ==
  \A k \in 1 .. Len(notified) :
    notified[k].kind = "select" =>
      LET key == getMappingKey(notified[k].mapping)
          execs == ExecNotes(NotesOfSelection(k))
      IN  IF key \in mappingSwitches
          THEN execs = <<[kind |-> "virtual", key |-> key]>>
          ELSE /\ Len(execs) <= 1
               /\ \A j \in 1 .. Len(execs) : execs[j].kind # "virtual"

\* C25 witness: before didFinishLaunching, with the child accessory of the
\* "red" URL mapping of button 2 restored, a single press of button 2 in red
\* mode has pulsed the trigger and requested nothing.
C25_Witness ==
  /\ ~launched
  /\ requests = 0
  /\ \E k \in 1 .. Len(notified) :
       /\ notified[k].kind = "select"
       /\ notified[k].mapping = buttonMappings[2]
       /\ ExecNotes(NotesOfSelection(k)) =
            <<[kind |-> "virtual", key |-> getMappingKey(buttonMappings[2])]>>

MappingKeys == {getMappingKey(buttonMappings[k]) : k \in 1 .. Len(buttonMappings)}

\* How many entries of seq satisfy Test.
Count(seq, Test(_)) == Len(SelectSeq(seq, Test))

\* C26: every pulse of a virtual trigger sets the trigger to true and
\* schedules exactly one reset timer for it; a trigger that is true becomes
\* false again; and in the end (the presses are finitely many) every trigger
\* is false and stays false.
C26_PulseIsReset ==
  /\ [][\A key \in MappingKeys :
          LET pulses == Count(notified',
                              LAMBDA n : n.kind = "virtual" /\ n.key = key)
          IN  pulses > 0 =>
                /\ key \in switchOn'
                /\ Count(resetTimers', LAMBDA t : t = key)
                     = Count(resetTimers, LAMBDA t : t = key) + pulses]_vars
  /\ \A key \in MappingKeys : (key \in switchOn) ~> (key \notin switchOn)
  /\ <>[](switchOn = {})

\* C26 witness: the reset timer of a pulsed trigger has just fired, and no
\* trigger is true.
C26_Witness ==
  /\ switchOn = {}
  /\ resetTimers = <<>>
  /\ \E key \in MappingKeys : notified = <<[kind |-> "reset", key |-> key]>>

\* C27: a step executes at most as many actions (pulses, requests, values
\* set, LED set commands) as it completes single presses; a mapping with a
\* URL action that is selected while it has no virtual trigger causes exactly
\* one request, to its URL; and the failure of a request leaves everything
\* but the request itself as it was, and causes no new request.
C27_OneRequestNoRetry ==
  [][/\ Len(ExecNotes(notified'))
          + Count(written', LAMBDA w : w.op = "set")
        <= Count(notified', LAMBDA n : n.kind = "button")
     /\ \A k \in 1 .. Len(notified') :
          (/\ notified'[k].kind = "select"
           /\ notified'[k].mapping.actionType = "url"
           /\ getMappingKey(notified'[k].mapping) \notin mappingSwitches')
          => /\ Count(notified', LAMBDA n : n.kind = "url") = 1
             /\ k < Len(notified')
             /\ notified'[k + 1] =
                  [kind |-> "url", url |-> notified'[k].mapping.url]
             /\ requests' = requests + 1
     /\ RequestError
          => /\ requests' = requests - 1
             /\ notified' = <<>>
             /\ written' = <<>>
             /\ UNCHANGED <<connVars, ledColor, buttonStates, eventQueue,
                            currentColorIndex, switchOn, resetTimers>>]_vars

\* C27 witness: before didFinishLaunching a single press of button 3, whose
\* only mapping is a URL action, has issued the one request.
C27_Witness ==
  /\ ~launched
  /\ completions[2] = 1
  /\ requests = 1
  /\ ExecNotes(notified) = <<[kind |-> "url", url |-> buttonMappings[4].url]>>

\* C28: a single press of button 9, whose mapping is an LED action with the
\* value #FF0000, completed while Connected and while the mapping has no
\* virtual trigger, writes one set command for red and makes DeviceColor
\* red.
C28_LedActionSetsColor ==
  [][\A s \in SocketIds :
       (/\ OnData(s, PressRelease(<<"9">>))
        /\ connected /\ ~isShuttingDown /\ buttonServices # {}
        /\ getMappingKey(buttonMappings[11]) \notin mappingSwitches)
       => /\ ledColor' = RGB(255, 0, 0)
          /\ Count(written', LAMBDA w : w.op = "set") = 1]_vars

\* Scaling color c so that its largest channel is 255 and rounding each
\* channel to the nearest integer (halves upwards) gives color t.
NormalisesTo(c, t) ==
  LET max == Max3(c.r, c.g, c.b)
      Rounds(x, y) == 2 * max * y - max <= 510 * x /\ 510 * x < 2 * max * y + max
  IN  max > 0 /\ Rounds(c.r, t.r) /\ Rounds(c.g, t.g) /\ Rounds(c.b, t.b)

ModesOf(c) == {m \in DOMAIN modeColors : NormalisesTo(c, modeColors[m])}

\* C29: the mode of a color is "off" for (0,0,0); otherwise it is the one
\* mode whose canonical color the color normalises to (so every canonical
\* color has its own mode), and "unknown" when there is no such mode.
C29_ClassifyMode ==
  /\ \A m \in DOMAIN modeColors : ModesOf(modeColors[m]) = {m}
  /\ \A k \in 1 .. Len(notified) :
       notified[k].kind = "mode" =>
         /\ ledColor = RGB(0, 0, 0) => notified[k].mode = "off"
         /\ ledColor # RGB(0, 0, 0) =>
              /\ Cardinality(ModesOf(ledColor)) <= 1
              /\ ModesOf(ledColor) = {} => notified[k].mode = "unknown"
              /\ ModesOf(ledColor) # {} => notified[k].mode \in ModesOf(ledColor)

\* C29 witness: a red dimmed to a quarter has been classified as red.
C29_Witness ==
  /\ ledColor = RGB(64, 0, 0)
  /\ notified = <<[kind |-> "mode", mode |-> "red"]>>

\* C30: a step changes DeviceColor only when it writes, with the session
\* Connected, a set command for the new color, or when it is the receipt of
\* an LED report; transport errors, closes and timeouts, reconnects,
\* keepalive ticks, shutdown, and button events and queue flushes that write
\* no set command leave it unchanged.
C30_DeviceColorFrame ==
  [][ledColor' # ledColor =>
       \/ /\ connected /\ ~isShuttingDown
          /\ \E k \in 1 .. Len(written') :
               /\ written'[k].op = "set"
               /\ RGB(written'[k].r, written'[k].g, written'[k].b) = ledColor'
       \/ \E s \in SocketIds : Receive(s, LedOffReport, MaxFrameEvents)]_vars

\* C30 witness: after DeviceColor was changed to off, a single press of
\* button 2 has been completed and dispatched, and DeviceColor is still off.
C30_Witness ==
  /\ ledColor = RGB(0, 0, 0)
  /\ ButtonNotes(1) # <<>>
  /\ Len(DispatchNotes) > 0


\* A step in which the timer-based handler accepts a press of button i.
PressAccepted(i) ==
  /\ presses'[i] = presses[i] + 1
  /\ buttonStates'[i].state = 1

PressNotes(i, type) ==
  SelectSeq(notified, LAMBDA n : n.kind = "press" /\ n.button = i /\ n.type = type)

PressNotesNext(i, type) ==
  SelectSeq(notified', LAMBDA n : n.kind = "press" /\ n.button = i /\ n.type = type)

\* C31: in the timer-based handler an accepted press that begins less than
\* DoublePressWindow after the previous press of the same button began is
\* classified double (and only such a press is), and a press still held when
\* its long-press timer fires, LongPressDelay or more after it began, is
\* classified long.
C31_DoubleAndLong ==
  [][\A i \in Buttons :
       /\ PressAccepted(i) =>
            (Len(PressNotesNext(i, "double")) = 1
               <=> (buttonStates[i].lastPress # 0
                    /\ now - buttonStates[i].lastPress < DoublePressWindow))
       /\ (i \in pressTimers /\ i \notin pressTimers' /\ buttonStates'[i].state = 1)
            => /\ Len(PressNotesNext(i, "long")) = 1
               /\ now >= buttonStates[i].lastPress + LongPressDelay
       /\ Len(PressNotesNext(i, "long")) = 1
            => /\ buttonStates[i].state = 1
               /\ i \in pressTimers]_vars

\* A second press of button 0 was classified double while an earlier press
\* of button 1 had been classified long.
C31_Witness ==
  /\ Len(PressNotes(0, "double")) = 1
  /\ presses[0] = 2
  /\ completions[1] = 1
  /\ buttonStates[1].state = 1
  /\ 1 \notin pressTimers

\* C32: in the timer-based handler the long-press timer of a button is
\* pending only while the button is held, and every accepted press has
\* emitted exactly one classification event (single, double or long) unless
\* its timer is still pending, in which case it has emitted none yet: a
\* completed press-release cycle emits exactly one event, never both single
\* and long, whichever of the release and the timer expiry comes first.
C32_OneClassificationPerCycle ==
  \A i \in Buttons :
    /\ i \in pressTimers => buttonStates[i].state = 1
    /\ completions[i] = presses[i] - (IF i \in pressTimers THEN 1 ELSE 0)

\* The release of button 0 was handled after its long-press timer was due
\* but before it fired: the press was classified single and the timer is
\* cancelled.
C32_Witness ==
  /\ Len(PressNotes(0, "single")) = 1
  /\ buttonStates[0].state = 0
  /\ now >= buttonStates[0].lastPress + LongPressDelay
  /\ 0 \notin pressTimers
  /\ presses[0] = 1
  /\ completions[0] = 1

\* The transport held in this.socket is established.
CurrentEstablished ==
  socket # 0 /\ sockets[socket].status = "open"

\* C33: the pending reconnect timers and the open or connecting transports
\* together number at most one, however many connection attempts fail: a
\* failed attempt (an 'error' event, then a 'close' event) leaves no more
\* outstanding attempts than there were before it.
C33_OutstandingAttemptsBounded ==
  reconnectTimers + Cardinality({s \in SocketIds : Live(s)}) <= 1

\* C34: connected follows the transport held in this.socket: connected is
\* never true while that transport is closed, and a step that leaves that
\* transport established (such as the 'close' or 'error' event of an older
\* transport) neither sets connected to false nor clears the keepalive.
C34_ConnectedFollowsCurrent ==
  /\ [](connected => ~(socket # 0 /\ sockets[socket].status = "closed"))
  /\ [][(CurrentEstablished /\ CurrentEstablished' /\ connected)
          => (connected' /\ keepAliveInterval' = keepAliveInterval)]_vars

\* C35: the 'error' or 'timeout' event of transport s destroys no other
\* transport: every other transport that was open or connecting still is.
C35_DestroysOnlyOwnTransport ==
  [][\A s \in SocketIds :
       (SocketError(s) \/ SocketTimeout(s))
         => \A t \in SocketIds \ {s} :
              Live(t) => sockets'[t].status = sockets[t].status]_vars

\* C36: once shutdown has been signalled the session reaches the terminal
\* Disconnected state: from some point on connected is false and no
\* transport is open or connecting.
C36_ShutdownIsTerminal ==
  isShuttingDown ~> [](~connected /\ \A s \in SocketIds : ~Live(s))

\* C37: once shutdown has been signalled, a 'data' event and the queue flush
\* of didFinishLaunching leave DeviceColor, every ButtonState and the color
\* cycle position unchanged, hand no event to the button state machine,
\* write no command, pulse no virtual trigger, start no request and notify
\* nothing (the only notification of such a step is the reachability that
\* the accessory set-up of didFinishLaunching reports before the flush).
C37_NoEffectAfterShutdown ==
  [][(/\ isShuttingDown
      /\ \/ DidFinishLaunching
         \/ \E s \in SocketIds, chunk \in FrameChunks :
              Receive(s, chunk, MaxFrameEvents))
       => /\ ledColor' = ledColor
          /\ buttonStates' = buttonStates
          /\ currentColorIndex' = currentColorIndex
          /\ resetTimers' = resetTimers
          /\ switchOn' \subseteq switchOn
          /\ requests' = requests
          /\ handled' = <<>>
          /\ written' = <<>>
          /\ \A k \in 1 .. Len(notified') : notified'[k].kind = "reach"]_vars

\* The queue, which held events, has just been flushed by didFinishLaunching
\* after the shutdown signal, while connected was still true: no event reached
\* the button state machine.
C37_Witness ==
  /\ isShuttingDown
  /\ launched
  /\ connected
  /\ keepAliveInterval # "active"
  /\ notified = <<[kind |-> "reach", value |-> TRUE]>>
  /\ queuedSeqs # <<>>
  /\ eventQueue = <<>>
  /\ handledSeqs = <<>>

\* What a chain leaves behind outside the event queue and the event log.
Effect(p) ==
  <<p.buttonStates, p.ledColor, p.currentColorIndex, p.switchOn,
    p.resetTimers, p.requests, p.written, p.notified>>

\* The chunk without its events of BadEvents.
OnlyGood(chunk) ==
  ObjectChunk(chunk.led, SelectSeq(chunk.events, LAMBDA e : e \in GoodEvents))

\* A queued event that names a key of the keypad and a state of a key.
InRange(ev) == ev.buttonIndex \in Buttons /\ ev.state \in {0, 1}

\* The record didFinishLaunching flushes, holding the given queue.
LaunchWith(queue) ==
  [Self EXCEPT !.buttonServices = Buttons, !.lightService = TRUE,
               !.mappingSwitches = {getMappingKey(buttonMappings[k]) :
                                      k \in 1 .. Len(buttonMappings)},
               !.switchOn = {},
               !.notified = <<[kind |-> "reach", value |-> connected]>>,
               !.eventQueue = queue]

\* C38: a decoded button event whose index is outside 0..9 ("Key 0", "Key
\* 11") or whose state is neither 0 nor 1 has no effect, handled directly or
\* through the queue: a chunk, and a queue flush, change the ButtonStates
\* and notify and dispatch exactly as they would without such events, and
\* when all their events are such events they change no ButtonState and
\* notify and dispatch nothing.
C38_OutOfRangeIgnored ==
  [][/\ \A s \in SocketIds, chunk \in RangeChunks :
          OnData(s, chunk)
            => /\ Effect(DataHandler(Self, chunk))
                    = Effect(DataHandler(Self, OnlyGood(chunk)))
               /\ OnlyGood(chunk).events = <<>>
                    => /\ buttonStates' = buttonStates
                       /\ notified' = <<>>
                       /\ written' = <<>>
     /\ DidFinishLaunching
          => /\ Effect(processQueuedEvents(LaunchWith(eventQueue)))
                  = Effect(processQueuedEvents(
                             LaunchWith(SelectSeq(eventQueue, InRange))))
             /\ SelectSeq(eventQueue, InRange) = <<>>
                  => /\ buttonStates' = buttonStates
                     /\ \A k \in 1 .. Len(notified') :
                          notified'[k].kind = "reach"]_vars

\* Button 1 is held in a Connected session and an event with state 2 for
\* key 1 and one for "Key 11" have reached handleButtonEvent or its guard:
\* the button is still held and nothing was notified.
C38_Witness ==
  /\ connected
  /\ buttonServices = Buttons
  /\ buttonStates[0].state = 1
  /\ arrivals = 3
  /\ Len(handled) = 1
  /\ handled[1].state = 2
  /\ notified = <<>>
  /\ completions[0] = 0

\* C39: a virtual trigger that was pulsed again before the reset of its
\* earlier pulse fired stays true until the reset of the most recent pulse
\* fires: a reset timer that fires while a later reset of the same trigger
\* is pending does not set the trigger to false.
C39_SecondPulseNotCutShort ==
  [][\A key \in MappingKeys :
       (/\ resetTimers # <<>>
        /\ resetTimers' = Tail(resetTimers)
        /\ Count(resetTimers', LAMBDA t : t = key) > 0
        /\ key \in switchOn)
         => key \in switchOn']_vars

====
